---- MODULE Spec2Model ----
(***************************************************************************)
(* Verification model of the g-sap-learning-project presentation layer:    *)
(* pointer-follow handlers, scroll-linked mappings, entrance animations,   *)
(* animation registration, tween ownership, unmount cleanup, the page      *)
(* transition overlay and the navbar hide/show logic.                      *)
(*                                                                         *)
(* Lengths are fixed-point integers, U units per CSS pixel, so that the    *)
(* products with the strength factors 0.3, 0.2 and 0.15 are exact.         *)
(***************************************************************************)
EXTENDS Integers, Sequences, FiniteSets, TLC

VARIABLES
    \* ---- pointer-follow element (useMagnetic / MagneticButton / NavLink)
    magKind,        \* which component owns the element
    magStrength,    \* strength factor in hundredths (0.3 -> 30)
    magRef,         \* TRUE iff the element ref is non-null
    magCur,         \* current translation of the element [x, y]
    magReq,         \* kind of the last request issued: "none", "move", "leave"
    magTarget,      \* last requested target of the element [x, y]
    magTextTarget,  \* last requested target of MagneticButton's inner text
    magLast,        \* history: the last pointer event and the rect it measured
    \* ---- Navbar scroll hide/show
    winScrollY,     \* window.scrollY
    navLastScrollY, \* lastScrollY of the Navbar effect closure
    navY,           \* y of the last request issued for the nav element
    navSeen,        \* history: scroll events handled so far (saturating at 2)
    navPrevEvent,   \* history: scroll position at the event before the last
    \* ---- one scroll-scrubbed mapping (ScrollTrigger with scrub)
    scrMap,         \* which mapping of the source is registered
    scrGeom,        \* layout: trigger top/height, container and viewport width
    scrReg,         \* TRUE iff the mount effect has registered the mapping
    scrStart,       \* registered start threshold (scroll position)
    scrEnd,         \* registered end threshold (scroll position)
    scrPos,         \* current scroll position
    scrTarget,      \* target progress, numerator over ScrDen
    scrAnim,        \* progress the animation is rendered at, same scale
    scrFrom,        \* progress at which the smoothing tween started
    scrLeft,        \* ticks the smoothing tween still has to run
    \* ---- PageTransition
    ptMounted,      \* TRUE iff PageTransition is mounted
    ptFirstRender,  \* isFirstRender.current
    ptPath,         \* pathname; the children prop is the page of this route
    ptDisplay,      \* displayChildren: the route whose page is displayed
    ptScaleY,       \* scaleY of the overlay, in thousandths
    ptOrigin,       \* transformOrigin of the overlay
    ptTimelines,    \* running timelines, in creation order
    ptScrollTops,   \* TRUE iff an onComplete has called window.scrollTo(0, 0)
    ptLate,         \* history: a timeline callback ran after the unmount
    \* ---- one entrance animation
    entKind,        \* which entrance of the source
    entMounted,     \* TRUE iff its component is mounted
    entAnim,        \* playhead of the entrance: "initial", "playing", "done"
    entArmed,       \* TRUE iff its ScrollTrigger is alive
    entPos,         \* current scroll position
    entFiredLoad,   \* history: times the entrance started since page load
    entFiredMount,  \* history: times it started since the current mount
    entReplays,     \* history: Replay clicks since the current mount
    \* ---- registration of one component's animations against its DOM
    regComp,        \* the effect or handler that runs
    regDom,         \* the expected DOM nodes that are present
    regRan,         \* TRUE iff the effect or handler has run
    regIssued,      \* targets of the animation requests it issued
    regWarned,      \* TRUE iff the engine logged a missing-target warning
    \* ---- tweens alive on the home and basics pages
    twActive,       \* tweens requested by effects and handlers, still running
    twEntered,      \* TRUE iff the testimonials' once-trigger has fired
    tdTime,         \* playhead of TimelineDemo's timeline, in tenths of a second
    \* ---- lifecycle of TimelineDemo and CustomCursor
    lcDemoMounted,  \* TRUE while TimelineDemo is mounted
    lcTlOwner,      \* who built tlRef.current: "ctx" (mount effect) or "click"
    lcTlTime,       \* playhead of tlRef.current, in tenths of a second
    lcTlDir,        \* "fwd", "rev" or "stopped"
    lcIsPlaying,    \* React state isPlaying
    lcActiveStep,   \* React state activeStep
    lcCursorMounted,\* TRUE while CustomCursor is mounted
    lcListeners,    \* document listeners CustomCursor has registered
    lcFollowerTween,\* TRUE while a follower tween of handleMouseMove runs
    lcLate,         \* callbacks that ran while their component was unmounted
    \* ---- CustomCursor
    curMounted,     \* TRUE while CustomCursor's listeners are registered
    curUnder,       \* the DOM node under the pointer (Outside: none)
    curPos,         \* clientX / clientY of the pointer
    curQueue,       \* document events produced by the pointer, not yet dispatched
    curDot,         \* x / y of the inner dot
    curTarget,      \* x / y the follower ring is heading to
    curFollowerBusy,\* TRUE while a follower tween runs
    curHovering,    \* TRUE iff the ring has the class is-hovering
    curScaleReq,    \* scale the dot is heading to, in hundredths
    curOpacityReq,  \* opacity dot and ring are heading to
    curLastMove,    \* history: coordinates of the last mousemove handled
    curHoverSeen,   \* history: a mouseover or mouseout was handled since mount
    \* ---- one replayable demo (GsapBasicsShowcase, FromToDemo, StaggerDemo)
    rpDemo,         \* which demo
    rpMounted,      \* TRUE while the demo is mounted
    rpContexts,     \* every gsap.context the demo created, in creation order
    rpCtxRef,       \* ctx.current: index into rpContexts, 0 for null
    rpElems,        \* the boxes of the mounted instance: "original", "animating", "settled"
    rpCleanStarts,  \* history: every run so far started from the original state
    \* ---- LenisSmoothScroll
    lnMounted,      \* TRUE while LenisSmoothScroll is mounted
    lnCreated,      \* Lenis instances created so far
    lnLive,         \* instances created and not destroyed
    lnCallbacks,    \* instances whose tickerCallback is on gsap.ticker
    lnTime,         \* time of the ticker, in thousandths of a second
    lnRafs,         \* lenis.raf calls made by the last tick
    lnRafArg,       \* argument of the last lenis.raf call, thousandths of a ms
    lnTicked,       \* history: the ticker has ticked since the last mount
    \* ---- one counter of CountersSection
    ctIndex,        \* index of the counter in `counters` (1..4)
    ctPos,          \* current scroll position
    ctPhase,        \* "waiting", "delayed", "running" or "done"
    ctStep,         \* eighths of the tween's duration that have elapsed
    ctText,         \* number shown in the element, in thousandths
    \* ---- createScrollTriggerConfig
    cfgEnv,         \* process.env.NODE_ENV of the build
    cfgOptions,     \* the options argument ("undefined": the key is absent)
    cfgCalled,      \* TRUE iff the factory has been called
    cfgResult       \* the configuration it returned

magVars == <<magKind, magStrength, magRef, magCur, magReq, magTarget,
             magTextTarget, magLast>>

navVars == <<winScrollY, navLastScrollY, navY, navSeen, navPrevEvent>>

scrVars == <<scrMap, scrGeom, scrReg, scrStart, scrEnd, scrPos, scrTarget,
             scrAnim, scrFrom, scrLeft>>

ptVars == <<ptMounted, ptFirstRender, ptPath, ptDisplay, ptScaleY, ptOrigin,
            ptTimelines, ptScrollTops, ptLate>>

entVars == <<entKind, entMounted, entAnim, entArmed, entPos, entFiredLoad,
             entFiredMount, entReplays>>

regVars == <<regComp, regDom, regRan, regIssued, regWarned>>

twVars == <<twActive, twEntered, tdTime>>

lcVars == <<lcDemoMounted, lcTlOwner, lcTlTime, lcTlDir, lcIsPlaying,
           lcActiveStep, lcCursorMounted, lcListeners, lcFollowerTween,
           lcLate>>

curVars == <<curMounted, curUnder, curPos, curQueue, curDot, curTarget, curFollowerBusy, curHovering, curScaleReq, curOpacityReq, curLastMove, curHoverSeen>>

rpVars == <<rpDemo, rpMounted, rpContexts, rpCtxRef, rpElems, rpCleanStarts>>

lnVars == <<lnMounted, lnCreated, lnLive, lnCallbacks, lnTime, lnRafs, lnRafArg, lnTicked>>

ctVars == <<ctIndex, ctPos, ctPhase, ctStep, ctText>>

cfgVars == <<cfgEnv, cfgOptions, cfgCalled, cfgResult>>

vars == <<magKind, magStrength, magRef, magCur, magReq, magTarget,
          magTextTarget, magLast,
          winScrollY, navLastScrollY, navY, navSeen, navPrevEvent,
          scrMap, scrGeom, scrReg, scrStart, scrEnd, scrPos, scrTarget,
          scrAnim, scrFrom, scrLeft,
          ptMounted, ptFirstRender, ptPath, ptDisplay, ptScaleY, ptOrigin,
          ptTimelines, ptScrollTops, ptLate,
          entKind, entMounted, entAnim, entArmed, entPos, entFiredLoad,
          entFiredMount, entReplays,
          regComp, regDom, regRan, regIssued, regWarned,
          twActive, twEntered, tdTime,
          lcDemoMounted, lcTlOwner, lcTlTime, lcTlDir, lcIsPlaying,
          lcActiveStep, lcCursorMounted, lcListeners, lcFollowerTween,
          lcLate,
          curMounted, curUnder, curPos, curQueue, curDot, curTarget, curFollowerBusy, curHovering, curScaleReq, curOpacityReq, curLastMove, curHoverSeen,
          rpDemo, rpMounted, rpContexts, rpCtxRef, rpElems, rpCleanStarts,
          lnMounted, lnCreated, lnLive, lnCallbacks, lnTime, lnRafs, lnRafArg, lnTicked,
          ctIndex, ctPos, ctPhase, ctStep, ctText,
          cfgEnv, cfgOptions, cfgCalled, cfgResult>>

\* ------------------------------------------------------------------------
\* Fixed-point arithmetic
\* ------------------------------------------------------------------------
U == 1000

Px(n) == n * U

Abs(n) == IF n < 0 THEN -n ELSE n

\* v * (h / 100), defined when the product is exact in fixed point
Scale(v, h) == (v * h) \div 100

ExactScale(v, h) == (v * h) % 100 = 0

Zero2 == [x |-> 0, y |-> 0]

\* ------------------------------------------------------------------------
\* Pointer-follow: useMagnetic, MagneticButton, NavLink
\* ------------------------------------------------------------------------
MagKinds == {"useMagnetic", "MagneticButton", "NavLink"}

\* useMagnetic: const { strength = 0.3, ... } = options
DefaultStrength == 30

\* MagneticButton: x * 0.3 for the button, x * 0.15 for the inner text
ButtonStrength == 30

TextStrength == 15

\* NavLink: x * 0.2
NavLinkStrength == 20

\* strengths a caller of useMagnetic passes in options
HookStrengths == {DefaultStrength, 50}

StrengthOf(kind, opt) ==
    CASE kind = "useMagnetic"    -> opt
      [] kind = "MagneticButton" -> ButtonStrength
      [] kind = "NavLink"        -> NavLinkStrength

\* layout box of the element at rest (no transform applied), in px
RestLeft == 80

RestTop == 90

RestWidth == 40

RestHeight == 20

RestRect == [left |-> Px(RestLeft), top |-> Px(RestTop),
             width |-> Px(RestWidth), height |-> Px(RestHeight)]

\* getBoundingClientRect(): the layout box shifted by the current translation
BoundingRect(cur) ==
    [left |-> RestRect.left + cur.x, top |-> RestRect.top + cur.y,
     width |-> RestRect.width, height |-> RestRect.height]

\* pointer positions of the events, in px
Pointers == { [x |-> Px(140), y |-> Px(80)],
              [x |-> Px(100), y |-> Px(100)],
              [x |-> Px(70),  y |-> Px(110)] }

\* deltaX = e.clientX - centerX with centerX = rect.left + rect.width / 2
DeltaNoHalf(client, start, extent) == client - start

Delta(client, start, extent) == client - (start + extent \div 2)

\* x: deltaX * strength
OffsetUnscaled(d, strength) == d

Offset(d, strength) == Scale(d, strength)

\* snap-back target of handleMouseLeave: x: 0, y: 0
LeaveTargetStale(cur) == cur

LeaveTarget(cur) == Zero2

NoEvent == [type |-> "none", handled |-> FALSE, client |-> Zero2,
            rect |-> RestRect]

MagInit ==
    /\ magKind \in MagKinds
    /\ \E opt \in HookStrengths : magStrength = StrengthOf(magKind, opt)
    /\ magRef = TRUE
    /\ magCur = Zero2
    /\ magReq = "none"
    /\ magTarget = Zero2
    /\ magTextTarget = Zero2
    /\ magLast = NoEvent

MagIdle ==
    /\ magKind = "useMagnetic"
    /\ magStrength = DefaultStrength
    /\ magRef = TRUE
    /\ magCur = Zero2
    /\ magReq = "none"
    /\ magTarget = Zero2
    /\ magTextTarget = Zero2
    /\ magLast = NoEvent

\* handleMouseMove of the three components
MagMouseMove(e) ==
    LET rect == BoundingRect(magCur)
        dx   == Delta(e.x, rect.left, rect.width)
        dy   == Delta(e.y, rect.top, rect.height)
    IN  /\ ExactScale(dx, magStrength) /\ ExactScale(dy, magStrength)
        /\ magKind = "MagneticButton" =>
               ExactScale(dx, TextStrength) /\ ExactScale(dy, TextStrength)
        /\ magLast' = [type |-> "move", handled |-> magRef, client |-> e,
                       rect |-> rect]
        /\ IF ~magRef
           THEN UNCHANGED <<magReq, magTarget, magTextTarget>>
           ELSE /\ magReq' = "move"
                /\ magTarget' = [x |-> Offset(dx, magStrength),
                                 y |-> Offset(dy, magStrength)]
                /\ magTextTarget' =
                       IF magKind = "MagneticButton"
                       THEN [x |-> Offset(dx, TextStrength),
                             y |-> Offset(dy, TextStrength)]
                       ELSE magTextTarget
        /\ UNCHANGED <<magKind, magStrength, magRef, magCur>>

\* handleMouseLeave of the three components
MagMouseLeave ==
    /\ magLast' = [type |-> "leave", handled |-> magRef, client |-> Zero2,
                   rect |-> BoundingRect(magCur)]
    /\ IF ~magRef
       THEN UNCHANGED <<magReq, magTarget, magTextTarget>>
       ELSE /\ magReq' = "leave"
            /\ magTarget' = LeaveTarget(magCur)
            /\ magTextTarget' =
                   IF magKind = "MagneticButton"
                   THEN LeaveTarget(magTextTarget) ELSE magTextTarget
    /\ UNCHANGED <<magKind, magStrength, magRef, magCur>>

\* the engine finishes the most recent tween: the element reaches its target
MagSettle ==
    /\ magRef
    /\ magReq # "none"
    /\ magCur # magTarget
    /\ magCur' = magTarget
    /\ UNCHANGED <<magKind, magStrength, magRef, magReq, magTarget,
                   magTextTarget, magLast>>

\* the element unmounts: React clears the ref
MagUnmount ==
    /\ magRef
    /\ magRef' = FALSE
    /\ magCur' = Zero2
    /\ UNCHANGED <<magKind, magStrength, magReq, magTarget, magTextTarget,
                   magLast>>

\* the element mounts again: React sets the ref to a fresh node
MagMount ==
    /\ ~magRef
    /\ magRef' = TRUE
    /\ magCur' = Zero2
    /\ magReq' = "none"
    /\ magTarget' = Zero2
    /\ magTextTarget' = Zero2
    /\ magLast' = NoEvent
    /\ UNCHANGED <<magKind, magStrength>>

MagNext ==
    \/ \E e \in Pointers : MagMouseMove(e)
    \/ MagMouseLeave
    \/ MagSettle
    \/ MagUnmount
    \/ MagMount

\* ------------------------------------------------------------------------
\* Navbar: scroll-based hide / show
\* ------------------------------------------------------------------------
\* currentScrollY > 100
NavThreshold == 100

\* gsap.to(navRef.current, { y: -100 }) hides, { y: 0 } shows
NavHiddenY == -100

NavShownY == 0

\* y before any request: the nav element sits at its CSS position
NavUnrequested == 1

\* scroll positions the window reports, in px
ScrollPositions == {0, 50, 100, 101, 150, 200, 300, 500}

\* if (currentScrollY > lastScrollY && currentScrollY > 100)
HideConditionNoDirection(cur, last) == cur > NavThreshold

HideCondition(cur, last) == cur > last /\ cur > NavThreshold

NavInit ==
    /\ winScrollY \in ScrollPositions
    /\ navLastScrollY = 0
    /\ navY = NavUnrequested
    /\ navSeen = 0
    /\ navPrevEvent = 0

NavIdle ==
    /\ winScrollY = 0
    /\ navLastScrollY = 0
    /\ navY = NavUnrequested
    /\ navSeen = 0
    /\ navPrevEvent = 0

\* a scroll event: the window is at position y when handleScroll runs
NavHandleScroll(y) ==
    /\ winScrollY' = y
    /\ navY' = IF HideCondition(y, navLastScrollY)
               THEN NavHiddenY ELSE NavShownY
    /\ navLastScrollY' = y
    /\ navPrevEvent' = winScrollY
    /\ navSeen' = IF navSeen < 2 THEN navSeen + 1 ELSE 2

NavNext == \E y \in ScrollPositions : NavHandleScroll(y)

\* ------------------------------------------------------------------------
\* Scroll-scrubbed mappings (ScrollTrigger with scrub)
\* ------------------------------------------------------------------------
\* start / end strings of each mapping: the trigger edge, the viewport
\* percentage it has to meet ('top' = 0, 'center' = 50), and the scrub value
\* (scrub: true is 0 seconds of smoothing, scrub: 1 is 1 second)
ScrubConfig ==
    [ timelineLine     |-> [se |-> "top", sp |-> 50, ee |-> "bottom", ep |-> 50,
                            scrub |-> 1],
      processLine      |-> [se |-> "top", sp |-> 60, ee |-> "bottom", ep |-> 40,
                            scrub |-> 1],
      aboutParallax    |-> [se |-> "top", sp |-> 0, ee |-> "bottom", ep |-> 0,
                            scrub |-> 0],
      horizontalScroll |-> [se |-> "top", sp |-> 0, ee |-> "relative", ep |-> 0,
                            scrub |-> 0],
      featureHighlight |-> [se |-> "top", sp |-> 65, ee |-> "top", ep |-> 35,
                            scrub |-> 0],
      svgMorph         |-> [se |-> "top", sp |-> 50, ee |-> "bottom", ep |-> 50,
                            scrub |-> 1] ]

ScrubMaps == DOMAIN ScrubConfig

\* layouts: document offset and height of the trigger, scroll width of the
\* horizontal container, window.innerWidth and innerHeight (px)
TriggerTops == {120, 200}

TriggerHeights == {80, 160}

ContainerWidths == {300}

ViewportWidths == {100, 200, 400}

ViewportHeight == 100

Geometries ==
    [top : TriggerTops, height : TriggerHeights, contW : ContainerWidths,
     viewW : ViewportWidths]

\* const totalScrollWidth = scrollContainer.scrollWidth - window.innerWidth
TotalScrollWidthAbs(g) == Abs(g.contW - g.viewW)

TotalScrollWidth(g) == g.contW - g.viewW

\* scroll position at which a trigger edge meets a viewport percentage
EdgeOffset(g, edge) == IF edge = "bottom" THEN g.top + g.height ELSE g.top

Threshold(g, edge, pct) == EdgeOffset(g, edge) - (pct * ViewportHeight) \div 100

\* the start position of a mapping
MapStart(m, g) == Threshold(g, ScrubConfig[m].se, ScrubConfig[m].sp)

\* the end position as written: an edge/percentage pair or '+=distance'
MapEndRaw(m, g) ==
    IF ScrubConfig[m].ee = "relative"
    THEN MapStart(m, g) + TotalScrollWidth(g)
    ELSE Threshold(g, ScrubConfig[m].ee, ScrubConfig[m].ep)

\* the engine never lets the end precede the start
MapEnd(m, g) ==
    IF MapEndRaw(m, g) < MapStart(m, g) THEN MapStart(m, g)
    ELSE MapEndRaw(m, g)

\* denominator of the progress fractions of a registered mapping
ScrDen(start, end) == IF end > start THEN end - start ELSE 1

\* target progress (numerator over ScrDen): linear between the thresholds
ProgressUnclamped(pos, start, end) ==
    IF end > start THEN pos - start ELSE IF pos >= start THEN 1 ELSE 0

Progress(pos, start, end) ==
    IF end > start
    THEN IF pos <= start THEN 0
         ELSE IF pos >= end THEN end - start ELSE pos - start
    ELSE IF pos >= start THEN 1 ELSE 0

\* ticks of 0.5 s one second of scrub smoothing lasts
ScrubTicksPerSecond == 2

\* rendering of a scroll update: scrub: true renders the target at once,
\* a numeric scrub leaves the rendered progress to the smoothing tween
RenderOnUpdateLagging(lag, anim, target) == anim

RenderOnUpdate(lag, anim, target) == IF lag = 0 THEN target ELSE anim

MaxScroll == 400

WheelDeltas == {-80, -10, 10, 80}

ClampScroll(y) == IF y < 0 THEN 0 ELSE IF y > MaxScroll THEN MaxScroll ELSE y

ScrInit ==
    /\ scrMap \in ScrubMaps
    /\ scrGeom \in Geometries
    /\ scrMap # "horizontalScroll" => scrGeom.viewW = 100
    /\ scrReg = FALSE
    /\ scrStart = 0
    /\ scrEnd = 0
    /\ scrPos = 0
    /\ scrTarget = 0
    /\ scrAnim = 0
    /\ scrFrom = 0
    /\ scrLeft = 0

ScrIdle ==
    /\ scrMap = "timelineLine"
    /\ scrGeom = [top |-> 120, height |-> 80, contW |-> 300, viewW |-> 100]
    /\ scrReg = FALSE
    /\ scrStart = 0
    /\ scrEnd = 0
    /\ scrPos = 0
    /\ scrTarget = 0
    /\ scrAnim = 0
    /\ scrFrom = 0
    /\ scrLeft = 0

\* the section mounts: its effect registers the tween with its ScrollTrigger,
\* whose refresh measures the thresholds and renders the current progress
ScrRegister ==
    /\ ~scrReg
    /\ scrReg' = TRUE
    /\ scrStart' = MapStart(scrMap, scrGeom)
    /\ scrEnd' = MapEnd(scrMap, scrGeom)
    /\ scrTarget' = Progress(scrPos, scrStart', scrEnd')
    /\ scrAnim' = scrTarget'
    /\ scrFrom' = scrTarget'
    /\ scrLeft' = 0
    /\ UNCHANGED <<scrMap, scrGeom, scrPos>>

\* a scroll update at the new position
ScrScroll(d) ==
    /\ ClampScroll(scrPos + d) # scrPos
    /\ scrPos' = ClampScroll(scrPos + d)
    /\ IF scrReg
       THEN /\ scrTarget' = Progress(scrPos', scrStart, scrEnd)
            /\ scrAnim' = RenderOnUpdate(ScrubConfig[scrMap].scrub, scrAnim,
                                         scrTarget')
            /\ scrFrom' = scrAnim'
            /\ scrLeft' = IF scrAnim' = scrTarget' THEN 0
                          ELSE ScrubConfig[scrMap].scrub * ScrubTicksPerSecond
       ELSE UNCHANGED <<scrTarget, scrAnim, scrFrom, scrLeft>>
    /\ UNCHANGED <<scrMap, scrGeom, scrReg, scrStart, scrEnd>>

\* a tick of the engine advances the smoothing tween of a numeric scrub
ScrTick ==
    /\ scrReg
    /\ scrLeft > 0
    /\ scrLeft' = scrLeft - 1
    /\ scrAnim' = IF scrLeft = 1 THEN scrTarget
                  ELSE scrFrom + ((scrTarget - scrFrom)
                         * (ScrubConfig[scrMap].scrub * ScrubTicksPerSecond
                              - scrLeft + 1))
                        \div (ScrubConfig[scrMap].scrub * ScrubTicksPerSecond)
    /\ UNCHANGED <<scrMap, scrGeom, scrReg, scrStart, scrEnd, scrPos,
                   scrTarget, scrFrom>>

\* the section unmounts: useGSAP reverts the tween and kills its trigger
ScrUnmount ==
    /\ scrReg
    /\ scrReg' = FALSE
    /\ scrStart' = 0
    /\ scrEnd' = 0
    /\ scrTarget' = 0
    /\ scrAnim' = 0
    /\ scrFrom' = 0
    /\ scrLeft' = 0
    /\ UNCHANGED <<scrMap, scrGeom, scrPos>>

ScrNext ==
    \/ ScrRegister
    \/ \E d \in WheelDeltas : ScrScroll(d)
    \/ ScrTick
    \/ ScrUnmount

\* ------------------------------------------------------------------------
\* PageTransition: overlay wipe on route change
\* ------------------------------------------------------------------------
\* the routes of navLinks
Routes == {"/", "/services", "/about", "/gsap-basics"}

\* one engine tick is 0.1 s: the cover tween (duration 0.5) spans 5 ticks,
\* the reveal tween starts after its delay of 0.1 and spans 5 more
CoverTicks == 5

RevealDelayTicks == 1

RevealTicks == 5

SwapTick == CoverTicks

RevealStartTick == CoverTicks + RevealDelayTicks

EndTick == CoverTicks + RevealDelayTicks + RevealTicks

\* scaleY: 1 of the cover tween, in thousandths
FullCover == 1000

\* 'expo.inOut' sampled at fifths of the tween, in thousandths
ExpoInOut == <<8, 125, 875, 992, 1000>>

Ease(k, n) == IF k <= 0 THEN 0 ELSE IF k >= n THEN 1000
              ELSE ExpoInOut[(k * 5) \div n]

\* timelines a run keeps alive at once
MaxTimelines == 2

PtInit ==
    /\ ptMounted = TRUE
    /\ ptFirstRender = TRUE
    /\ ptPath \in Routes
    /\ ptDisplay = ptPath
    /\ ptScaleY = 0
    /\ ptOrigin = "css"
    /\ ptTimelines = <<>>
    /\ ptScrollTops = FALSE
    /\ ptLate = FALSE

PtIdle ==
    /\ ptMounted = TRUE
    /\ ptFirstRender = TRUE
    /\ ptPath = "/"
    /\ ptDisplay = "/"
    /\ ptScaleY = 0
    /\ ptOrigin = "css"
    /\ ptTimelines = <<>>
    /\ ptScrollTops = FALSE
    /\ ptLate = FALSE

\* the effect on the initial page load: no animation
PtFirstEffect ==
    /\ ptMounted /\ ptFirstRender
    /\ ptFirstRender' = FALSE
    /\ ptDisplay' = ptPath
    /\ UNCHANGED <<ptMounted, ptPath, ptScaleY, ptOrigin, ptTimelines,
                   ptScrollTops, ptLate>>

\* the timeline the effect builds for the new children
NewTimeline(children) == [t |-> 0, children |-> children, from |-> 0]

\* a route change: pathname and children change and the effect runs again
PtNavigate(r) ==
    /\ ptMounted /\ ~ptFirstRender
    /\ r # ptPath
    /\ Len(ptTimelines) < MaxTimelines
    /\ ptPath' = r
    /\ ptTimelines' = Append(ptTimelines, NewTimeline(r))
    /\ UNCHANGED <<ptMounted, ptFirstRender, ptDisplay, ptScaleY, ptOrigin,
                   ptScrollTops, ptLate>>

\* one timeline rendered one tick further, on top of what the timelines
\* created before it have written in this tick
RenderTimeline(tl, acc) ==
    LET t1 == tl.t + 1 IN
    [ scaleY  |-> IF t1 <= CoverTicks THEN Ease(t1, CoverTicks)
                  ELSE IF t1 <= RevealStartTick THEN acc.scaleY
                  ELSE (tl.from * (1000 - Ease(t1 - RevealStartTick,
                                               RevealTicks))) \div 1000,
      origin  |-> IF t1 < SwapTick THEN "bottom" ELSE "top",
      display |-> IF t1 = SwapTick /\ acc.mounted THEN tl.children
                  ELSE acc.display,
      scrolls |-> acc.scrolls \/ t1 = EndTick,
      late    |-> acc.late \/ (~acc.mounted /\ t1 \in {SwapTick, EndTick}),
      mounted |-> acc.mounted,
      live    |-> IF t1 = EndTick THEN acc.live
                  ELSE Append(acc.live,
                              [t |-> t1, children |-> tl.children,
                               from |-> IF t1 = RevealStartTick
                                        THEN acc.scaleY ELSE tl.from]) ]

RECURSIVE RenderAll(_, _)
RenderAll(tls, acc) ==
    IF tls = <<>> THEN acc
    ELSE RenderAll(Tail(tls), RenderTimeline(Head(tls), acc))

\* a tick of the engine: every running timeline advances by 0.1 s
PtTick ==
    /\ ptTimelines # <<>>
    /\ LET r == RenderAll(ptTimelines,
                          [scaleY |-> ptScaleY, origin |-> ptOrigin,
                           display |-> ptDisplay, scrolls |-> ptScrollTops,
                           late |-> ptLate, mounted |-> ptMounted,
                           live |-> <<>>])
       IN  /\ ptScaleY' = r.scaleY
           /\ ptOrigin' = r.origin
           /\ ptDisplay' = r.display
           /\ ptScrollTops' = r.scrolls
           /\ ptLate' = r.late
           /\ ptTimelines' = r.live
    /\ UNCHANGED <<ptMounted, ptFirstRender, ptPath>>

\* PageTransition unmounts: its effect returns no cleanup
PtUnmount ==
    /\ ptMounted /\ ~ptFirstRender
    /\ ptMounted' = FALSE
    /\ UNCHANGED <<ptFirstRender, ptPath, ptDisplay, ptScaleY, ptOrigin,
                   ptTimelines, ptScrollTops, ptLate>>

PtNext ==
    \/ PtFirstEffect
    \/ \E r \in Routes : PtNavigate(r)
    \/ PtTick
    \/ PtUnmount

\* ------------------------------------------------------------------------
\* Entrance animations
\* ------------------------------------------------------------------------
\* sectionReveal: SectionWrapper's gsap.from with a once: true ScrollTrigger
\* itemReveal:    TimelineSection's gsap.from per milestone, once: true,
\*                no end given (default: 'bottom top')
\* heroEntrance:  HeroSection's timeline, built by the mount effect
\* basicsFrom:    GsapBasicsShowcase's gsap.from('.from-box'), built by
\*                runAnimations on mount and on every Replay click
EntKinds == {"sectionReveal", "itemReveal", "heroEntrance", "basicsFrom"}

ScrollTriggered(kind) == kind \in {"sectionReveal", "itemReveal"}

Replayable(kind) == kind = "basicsFrom"

\* layout of the wrapped section
EntGeom == [top |-> 120, height |-> 80, contW |-> 300, viewW |-> 100]

\* start: 'top 85%', end: 'bottom 20%'
EntStart == Threshold(EntGeom, "top", 85)

EntEnd == Threshold(EntGeom, "bottom", 20)

\* the end of a trigger that names none: 'bottom top'
ItemEnd == Threshold(EntGeom, "bottom", 0)

EndOf(kind) == IF kind = "itemReveal" THEN ItemEnd ELSE EntEnd

EntPositions == {0, 50, 100, 190, 200}

\* starts of one entrance a run counts
MaxFires == 3

\* play() starts the entrance only from its initial state: on a tween that
\* is running or has ended it changes nothing
StartsAlways(anim) == TRUE

Starts(anim) == anim = "initial"

EntInit ==
    /\ entKind \in EntKinds
    /\ entMounted = FALSE
    /\ entAnim = "initial"
    /\ entArmed = FALSE
    /\ entPos \in {0, 100}
    /\ entFiredLoad = 0
    /\ entFiredMount = 0
    /\ entReplays = 0

EntIdle ==
    /\ entKind = "sectionReveal"
    /\ entMounted = FALSE
    /\ entAnim = "initial"
    /\ entArmed = FALSE
    /\ entPos = 0
    /\ entFiredLoad = 0
    /\ entFiredMount = 0
    /\ entReplays = 0

\* the component mounts (page load, or a route change back to its page):
\* the effect builds the entrance; a scroll-triggered one starts at once
\* when the page is already scrolled past its start
EntMount ==
    /\ ~entMounted
    /\ entFiredLoad < MaxFires
    /\ entMounted' = TRUE
    /\ entReplays' = 0
    /\ LET plays == ~ScrollTriggered(entKind) \/ entPos >= EntStart IN
       /\ entAnim' = IF plays THEN "playing" ELSE "initial"
       /\ entFiredMount' = IF plays THEN 1 ELSE 0
       /\ entFiredLoad' = IF plays THEN entFiredLoad + 1 ELSE entFiredLoad
    /\ entArmed' = (ScrollTriggered(entKind) /\ entPos < EndOf(entKind))
    /\ UNCHANGED <<entKind, entPos>>

\* the component unmounts: useGSAP reverts what the effect built
EntUnmount ==
    /\ entMounted
    /\ entMounted' = FALSE
    /\ entAnim' = "initial"
    /\ entArmed' = FALSE
    /\ entFiredMount' = 0
    /\ entReplays' = 0
    /\ UNCHANGED <<entKind, entPos, entFiredLoad>>

\* a scroll update: toggleActions 'play none none none' plays on entering
\* from above the start; once: true kills the trigger at the end position
EntScroll(y) ==
    /\ y # entPos
    /\ entFiredLoad < MaxFires
    /\ entPos' = y
    /\ LET enters == entArmed /\ entPos < EntStart /\ y >= EntStart
           plays  == enters /\ Starts(entAnim)
       IN  /\ entAnim' = IF plays THEN "playing" ELSE entAnim
           /\ entFiredMount' = IF plays THEN entFiredMount + 1
                               ELSE entFiredMount
           /\ entFiredLoad' = IF plays THEN entFiredLoad + 1 ELSE entFiredLoad
    /\ entArmed' = (entArmed /\ y < EndOf(entKind))
    /\ UNCHANGED <<entKind, entMounted, entReplays>>

\* the entrance tween reaches its end
EntFinish ==
    /\ entMounted
    /\ entAnim = "playing"
    /\ entAnim' = "done"
    /\ UNCHANGED <<entKind, entMounted, entArmed, entPos, entFiredLoad,
                   entFiredMount, entReplays>>

\* a click on Replay: runAnimations reverts the stored context and builds
\* the tweens again
EntReplay ==
    /\ entMounted
    /\ Replayable(entKind)
    /\ entFiredLoad < MaxFires
    /\ entAnim' = "playing"
    /\ entFiredMount' = entFiredMount + 1
    /\ entFiredLoad' = entFiredLoad + 1
    /\ entReplays' = entReplays + 1
    /\ UNCHANGED <<entKind, entMounted, entArmed, entPos>>

EntNext ==
    \/ EntMount
    \/ EntUnmount
    \/ \E y \in EntPositions : EntScroll(y)
    \/ EntFinish
    \/ EntReplay

\* ------------------------------------------------------------------------
\* Registration: the guards and requests of the effects and handlers
\* ------------------------------------------------------------------------
Guard(nodes) == [op |-> "guard", nodes |-> nodes, node |-> "none",
                 within |-> "none"]

\* a request for a node; inside a forEach over `within` when that is a node
Request(node, within) == [op |-> "request", nodes |-> {}, node |-> node,
                          within |-> within]

\* the statements of each effect or handler, in source order
RegSteps ==
    [ NavbarEntrance  |-> << Request("nav", "none") >>,
      NavbarScroll    |-> << Guard({"nav"}), Request("nav", "none") >>,
      FeatureList     |-> << Guard({"section"}),
                             Request("item", "item"),
                             Request("card", "item"),
                             Request("icon", "item"),
                             Request("number", "item"),
                             Request("title", "item"),
                             Request("desc", "item") >>,
      HeroSection     |-> << Guard({"container", "bg"}),
                             Request("bg", "none"),
                             Request("chars", "none"),
                             Request("subtitle", "none"),
                             Request("cta", "none") >>,
      TimelineSection |-> << Guard({"section", "line"}),
                             Request("line", "none"),
                             Request("item", "item") >>,
      CustomCursor    |-> << Guard({"cursor", "follower"}),
                             Request("cursor", "none"),
                             Request("follower", "none") >>,
      MagneticButton  |-> << Guard({"button", "text"}),
                             Request("button", "none"),
                             Request("text", "none") >>,
      useMagnetic     |-> << Guard({"element"}),
                             Request("element", "none") >> ]

RegComps == DOMAIN RegSteps

\* the DOM nodes each one expects, with the node that contains each
RegParent ==
    [ NavbarEntrance  |-> [nav |-> "none"],
      NavbarScroll    |-> [nav |-> "none"],
      FeatureList     |-> [section |-> "none", item |-> "section",
                           card |-> "item", icon |-> "item",
                           number |-> "item", title |-> "item",
                           desc |-> "item"],
      HeroSection     |-> [container |-> "none", bg |-> "container",
                           chars |-> "container", subtitle |-> "container",
                           cta |-> "container"],
      TimelineSection |-> [section |-> "none", line |-> "section",
                           item |-> "section"],
      CustomCursor    |-> [cursor |-> "none", follower |-> "none"],
      MagneticButton  |-> [button |-> "none", text |-> "button"],
      useMagnetic     |-> [element |-> "none"] ]

\* the sets of present nodes a DOM tree can have
Doms(c) ==
    { d \in SUBSET (DOMAIN RegParent[c]) :
        \A n \in d : RegParent[c][n] = "none" \/ RegParent[c][n] \in d }

\* the effect or handler executed against a DOM: a failed guard returns, a
\* forEach over an absent node runs no body, a request reaches the engine,
\* which logs a warning when the target is null or an empty list
RECURSIVE RunSteps(_, _, _)
RunSteps(steps, dom, acc) ==
    IF steps = <<>> THEN acc
    ELSE LET st == Head(steps) IN
         IF st.op = "guard"
         THEN IF st.nodes \subseteq dom
              THEN RunSteps(Tail(steps), dom, acc)
              ELSE acc
         ELSE IF st.within # "none" /\ st.within \notin dom
              THEN RunSteps(Tail(steps), dom, acc)
              ELSE RunSteps(Tail(steps), dom,
                            [issued |-> acc.issued \cup {st.node},
                             warned |-> acc.warned \/ st.node \notin dom])

RegInit ==
    /\ regComp \in RegComps
    /\ regDom \in Doms(regComp)
    /\ regRan = FALSE
    /\ regIssued = {}
    /\ regWarned = FALSE

RegIdle ==
    /\ regComp = "useMagnetic"
    /\ regDom = {"element"}
    /\ regRan = FALSE
    /\ regIssued = {}
    /\ regWarned = FALSE

\* the effect (on mount) or the handler (on its event) runs
RegRun ==
    /\ ~regRan
    /\ regRan' = TRUE
    /\ LET r == RunSteps(RegSteps[regComp], regDom,
                         [issued |-> {}, warned |-> FALSE])
       IN  /\ regIssued' = r.issued
           /\ regWarned' = r.warned
    /\ UNCHANGED <<regComp, regDom>>

\* the component is rendered again with another DOM
RegRemount ==
    /\ regRan
    /\ regRan' = FALSE
    /\ regDom' \in Doms(regComp)
    /\ regIssued' = {}
    /\ regWarned' = FALSE
    /\ UNCHANGED regComp

RegNext ==
    \/ RegRun
    \/ RegRemount

\* ------------------------------------------------------------------------
\* Tweens: who writes which property of which element
\* ------------------------------------------------------------------------
\* the element NavLink's handlers animate
NavLinkTargetNav == "nav"

NavLinkTarget == "link"

\* Navbar: the entrance tween of the mount effect and the tween that
\* handleScroll requests on every scroll event, both on the nav element
NavbarTweens ==
    [ navEntrance |-> [comp |-> "Navbar", el |-> "nav",
                       props |-> {"y", "opacity"}],
      navScroll   |-> [comp |-> "Navbar", el |-> "nav", props |-> {"y"}] ]

\* NavLink: the pointer-move and pointer-leave tweens on the link itself
NavLinkTweens ==
    [ linkMove  |-> [comp |-> "NavLink", el |-> NavLinkTarget,
                     props |-> {"x", "y"}],
      linkLeave |-> [comp |-> "NavLink", el |-> NavLinkTarget,
                     props |-> {"x", "y"}] ]

\* TestimonialsSection: scroll-triggered entrance and endless idle float of
\* the first card
TestimonialsTweens ==
    [ cardEntrance |-> [comp |-> "TestimonialsSection",
                        el |-> "testimonial-card",
                        props |-> {"y", "opacity"}],
      cardFloat    |-> [comp |-> "TestimonialsSection",
                        el |-> "testimonial-card", props |-> {"y"}] ]

\* HeroSection: the entrance of the div that wraps the call-to-action button
HeroTweens ==
    [ heroCta |-> [comp |-> "HeroSection", el |-> "hero-cta",
                   props |-> {"scale", "opacity"}] ]

\* MagneticButton: the pointer-move tweens of the button and of its label
MagneticButtonTweens ==
    [ buttonMove |-> [comp |-> "MagneticButton", el |-> "button",
                      props |-> {"x", "y"}],
      textMove   |-> [comp |-> "MagneticButton", el |-> "button-text",
                      props |-> {"x", "y"}] ]

\* every tween outside TimelineDemo: owner, target element, properties
Tweens ==
    NavbarTweens @@ NavLinkTweens @@ TestimonialsTweens @@ HeroTweens
        @@ MagneticButtonTweens

\* tweens that run from the mount of their component
MountTweens == {"navEntrance", "cardFloat", "heroCta"}

\* repeat: -1
EndlessTweens == {"cardFloat"}

\* the tweens of buildTimeline, in the order they are added: duration in
\* tenths of a second and position parameter (default: the end of the
\* timeline; '<': the start of the tween added before; '-=0.2' and '+=0.1':
\* offsets from the end of the timeline)
TimelineSteps ==
    << [name |-> "step1", dur |-> 6, pos |-> "end", off |-> 0,
        props |-> {"scale", "opacity"}],
       [name |-> "step2", dur |-> 7, pos |-> "end", off |-> 0,
        props |-> {"x"}],
       [name |-> "step3", dur |-> 9, pos |-> "end", off |-> 0,
        props |-> {"rotation"}],
       [name |-> "step3color", dur |-> 9, pos |-> "prev", off |-> 0,
        props |-> {"backgroundColor"}],
       [name |-> "step4", dur |-> 7, pos |-> "end", off |-> -2,
        props |-> {"backgroundColor", "x", "rotation"}],
       [name |-> "step5", dur |-> 8, pos |-> "end", off |-> 1,
        props |-> {"scale", "opacity"}] >>

Max(a, b) == IF a >= b THEN a ELSE b

\* start time of the k-th tween and duration of the timeline after k tweens
RECURSIVE StepStart(_), TimelineDuration(_)
StepStartSequential(k) == TimelineDuration(k - 1)

StepStart(k) ==
    IF TimelineSteps[k].pos = "prev" THEN StepStart(k - 1)
    ELSE TimelineDuration(k - 1) + TimelineSteps[k].off

TimelineDuration(k) ==
    IF k = 0 THEN 0
    ELSE Max(TimelineDuration(k - 1), StepStart(k) + TimelineSteps[k].dur)

StepEnd(k) == StepStart(k) + TimelineSteps[k].dur

TotalDuration == TimelineDuration(Len(TimelineSteps))

\* the timeline tweens running at playhead t
StepsActiveAt(t) ==
    { k \in 1..Len(TimelineSteps) : StepStart(k) <= t /\ t < StepEnd(k) }

\* every running tween as [comp, el, props]
Running ==
    { [id |-> id, comp |-> Tweens[id].comp, el |-> Tweens[id].el,
       props |-> Tweens[id].props] : id \in twActive }
    \cup
    { [id |-> TimelineSteps[k].name, comp |-> "TimelineDemo",
       el |-> "tl-box", props |-> TimelineSteps[k].props] :
         k \in StepsActiveAt(tdTime) }

\* two different running tweens write a common property of one element
Conflict(a, b) ==
    /\ a.id # b.id
    /\ a.el = b.el
    /\ a.props \cap b.props # {}

\* state once the mount effects of the page have run
TwInit ==
    /\ twActive = MountTweens
    /\ twEntered = FALSE
    /\ tdTime = 0

TwIdle == TwInit

\* a scroll event: Navbar.handleScroll requests a tween of the nav's y
TwScroll ==
    /\ "navScroll" \notin twActive
    /\ twActive' = twActive \cup {"navScroll"}
    /\ UNCHANGED <<twEntered, tdTime>>

\* the testimonials scroll into view: their once-trigger plays the entrance
TwEnterTestimonials ==
    /\ ~twEntered
    /\ twEntered' = TRUE
    /\ twActive' = twActive \cup {"cardEntrance"}
    /\ UNCHANGED tdTime

\* pointer-move over a nav link or over the hero's MagneticButton
TwPointerMove(over) ==
    /\ twActive' = twActive \cup
           (IF over = "link" THEN {"linkMove"} ELSE {"buttonMove", "textMove"})
    /\ twActive' # twActive
    /\ UNCHANGED <<twEntered, tdTime>>

\* pointer-leave of a nav link
TwPointerLeave ==
    /\ "linkLeave" \notin twActive
    /\ twActive' = twActive \cup {"linkLeave"}
    /\ UNCHANGED <<twEntered, tdTime>>

\* a tween with a finite duration reaches its end
TwFinish(id) ==
    /\ id \in twActive
    /\ id \notin EndlessTweens
    /\ twActive' = twActive \ {id}
    /\ UNCHANGED <<twEntered, tdTime>>

\* a tick of the engine advances TimelineDemo's timeline by 0.1 s
TdTick ==
    /\ tdTime < TotalDuration
    /\ tdTime' = tdTime + 1
    /\ UNCHANGED <<twActive, twEntered>>

\* click on Play Timeline (enabled once the timeline has completed)
TdReplay ==
    /\ tdTime = TotalDuration
    /\ tdTime' = 0
    /\ UNCHANGED <<twActive, twEntered>>

TwNext ==
    \/ TwScroll
    \/ TwEnterTestimonials
    \/ \E over \in {"link", "button"} : TwPointerMove(over)
    \/ TwPointerLeave
    \/ \E id \in DOMAIN Tweens : TwFinish(id)
    \/ TdTick
    \/ TdReplay

\* ------------------------------------------------------------------------
\* Lifecycle: what TimelineDemo and CustomCursor leave behind on unmount
\* ------------------------------------------------------------------------
\* the value setActiveStep receives in the onStart of each timeline tween
\* (NoStep: the tween has no onStart)
NoStep == -1

StepCallback ==
    [ step1 |-> 0, step2 |-> 1, step3 |-> 2, step3color |-> NoStep,
      step4 |-> 3, step5 |-> 4 ]

\* the tweens whose onStart runs when the playhead moves from t to t + 1
StartingAt(t) ==
    { k \in 1..Len(TimelineSteps) :
        /\ StepCallback[TimelineSteps[k].name] # NoStep
        /\ t <= StepStart(k) /\ StepStart(k) < t + 1 }

\* the document events CustomCursor listens to
CursorEvents ==
    {"mousemove", "mouseover", "mouseout", "mouseleave", "mouseenter"}

\* what the unmount of TimelineDemo does to tlRef.current: useGSAP reverts
\* its context, which holds the timeline only if buildTimeline ran inside
\* the useGSAP callback
DirAfterRevert(owner, dir) == IF owner = "ctx" THEN "stopped" ELSE dir

\* both components mounted: the useGSAP callback has built the timeline,
\* CustomCursor's effect has added its listeners
LcInit ==
    /\ lcDemoMounted = TRUE
    /\ lcTlOwner = "ctx"
    /\ lcTlTime = 0
    /\ lcTlDir = "fwd"
    /\ lcIsPlaying = TRUE
    /\ lcActiveStep = NoStep
    /\ lcCursorMounted = TRUE
    /\ lcListeners = CursorEvents
    /\ lcFollowerTween = FALSE
    /\ lcLate = {}

LcIdle == LcInit

\* a tick of the engine plays the timeline forward by 0.1 s: onStart of the
\* tweens it enters, onComplete at the end
LcTick ==
    /\ lcTlDir = "fwd"
    /\ lcTlTime < TotalDuration
    /\ lcTlTime' = lcTlTime + 1
    /\ lcTlDir' = IF lcTlTime' = TotalDuration THEN "stopped" ELSE "fwd"
    /\ LET starting == StartingAt(lcTlTime)
           done == lcTlTime' = TotalDuration
       IN  /\ lcActiveStep' =
                 IF starting # {} /\ lcDemoMounted
                 THEN StepCallback[TimelineSteps[
                          CHOOSE k \in starting :
                              \A j \in starting : j <= k].name]
                 ELSE lcActiveStep
           /\ lcIsPlaying' =
                 IF done /\ lcDemoMounted THEN FALSE ELSE lcIsPlaying
           /\ lcLate' =
                 IF lcDemoMounted THEN lcLate
                 ELSE lcLate
                      \cup (IF starting # {} THEN {"setActiveStep"} ELSE {})
                      \cup (IF done THEN {"setIsPlaying"} ELSE {})
    /\ UNCHANGED <<lcDemoMounted, lcTlOwner, lcCursorMounted, lcListeners,
                   lcFollowerTween>>

\* a tick of the engine plays a reversed timeline backward by 0.1 s
LcTickReversed ==
    /\ lcTlDir = "rev"
    /\ lcTlTime' = lcTlTime - 1
    /\ lcTlDir' = IF lcTlTime' = 0 THEN "stopped" ELSE "rev"
    /\ UNCHANGED <<lcDemoMounted, lcTlOwner, lcIsPlaying, lcActiveStep,
                   lcCursorMounted, lcListeners, lcFollowerTween, lcLate>>

\* click on Play Timeline (disabled while isPlaying): buildTimeline kills
\* tlRef.current and builds a new timeline outside of any context
LcPlayClick ==
    /\ lcDemoMounted
    /\ ~lcIsPlaying
    /\ lcTlOwner' = "click"
    /\ lcTlTime' = 0
    /\ lcTlDir' = "fwd"
    /\ lcIsPlaying' = TRUE
    /\ lcActiveStep' = NoStep
    /\ UNCHANGED <<lcDemoMounted, lcCursorMounted, lcListeners,
                   lcFollowerTween, lcLate>>

\* click on Reverse: tlRef.current?.reverse(); setIsPlaying(false)
LcReverseClick ==
    /\ lcDemoMounted
    /\ lcTlDir' = IF lcTlTime > 0 THEN "rev" ELSE "stopped"
    /\ lcIsPlaying' = FALSE
    /\ <<lcTlDir', lcIsPlaying'>> # <<lcTlDir, lcIsPlaying>>
    /\ UNCHANGED <<lcDemoMounted, lcTlOwner, lcTlTime, lcActiveStep,
                   lcCursorMounted, lcListeners, lcFollowerTween, lcLate>>

\* TimelineDemo unmounts: useGSAP reverts its context
LcDemoUnmount ==
    /\ lcDemoMounted
    /\ lcDemoMounted' = FALSE
    /\ lcTlDir' = DirAfterRevert(lcTlOwner, lcTlDir)
    /\ UNCHANGED <<lcTlOwner, lcTlTime, lcIsPlaying, lcActiveStep,
                   lcCursorMounted, lcListeners, lcFollowerTween, lcLate>>

\* the document dispatches mousemove: handleMouseMove, if still registered,
\* moves the dot and requests a 0.4 s tween of the follower
LcMouseMove ==
    /\ "mousemove" \in lcListeners
    /\ ~lcFollowerTween
    /\ lcFollowerTween' = TRUE
    /\ lcLate' = IF lcCursorMounted THEN lcLate
                 ELSE lcLate \cup {"handleMouseMove"}
    /\ UNCHANGED <<lcDemoMounted, lcTlOwner, lcTlTime, lcTlDir, lcIsPlaying,
                   lcActiveStep, lcCursorMounted, lcListeners>>

\* the follower tween reaches its end
LcFollowerDone ==
    /\ lcFollowerTween
    /\ lcFollowerTween' = FALSE
    /\ UNCHANGED <<lcDemoMounted, lcTlOwner, lcTlTime, lcTlDir, lcIsPlaying,
                   lcActiveStep, lcCursorMounted, lcListeners, lcLate>>

\* CustomCursor unmounts: the cleanup removes the five listeners
LcCursorUnmount ==
    /\ lcCursorMounted
    /\ lcCursorMounted' = FALSE
    /\ lcListeners' = lcListeners \ CursorEvents
    /\ UNCHANGED <<lcDemoMounted, lcTlOwner, lcTlTime, lcTlDir, lcIsPlaying,
                   lcActiveStep, lcFollowerTween, lcLate>>

LcNext ==
    \/ LcTick
    \/ LcTickReversed
    \/ LcPlayClick
    \/ LcReverseClick
    \/ LcDemoUnmount
    \/ LcMouseMove
    \/ LcFollowerDone
    \/ LcCursorUnmount

\* ------------------------------------------------------------------------
\* CustomCursor: dot, follower ring and hover state
\* ------------------------------------------------------------------------
\* no node: the pointer is outside the document, or a node has no parent
Outside == "outside"

\* NavLink inside the Navbar: a link carrying data-cursor, with the
\* underline span of the active route inside it
NavDom ==
    [ nav          |-> [parent |-> "body", tag |-> "NAV", dataCursor |-> FALSE],
      navLinks     |-> [parent |-> "nav", tag |-> "DIV", dataCursor |-> FALSE],
      navLink      |-> [parent |-> "navLinks", tag |-> "A",
                        dataCursor |-> TRUE],
      navUnderline |-> [parent |-> "navLink", tag |-> "SPAN",
                        dataCursor |-> FALSE] ]

\* HeroSection: the subtitle and the wrapper of the MagneticButton
HeroDom ==
    [ heroSubtitle |-> [parent |-> "body", tag |-> "P", dataCursor |-> FALSE],
      heroCta      |-> [parent |-> "body", tag |-> "DIV",
                        dataCursor |-> FALSE] ]

\* MagneticButton: a button carrying data-cursor with its label span
ButtonDom ==
    [ button     |-> [parent |-> "heroCta", tag |-> "BUTTON",
                      dataCursor |-> TRUE],
      buttonText |-> [parent |-> "button", tag |-> "SPAN",
                      dataCursor |-> FALSE] ]

\* TeamSection: a card carrying data-cursor, with image and name inside
TeamDom ==
    [ teamCard  |-> [parent |-> "body", tag |-> "DIV", dataCursor |-> TRUE],
      teamImage |-> [parent |-> "teamCard", tag |-> "DIV",
                     dataCursor |-> FALSE],
      teamName  |-> [parent |-> "teamCard", tag |-> "H3",
                     dataCursor |-> FALSE] ]

Dom ==
    [ body |-> [parent |-> Outside, tag |-> "BODY", dataCursor |-> FALSE] ]
        @@ NavDom @@ HeroDom @@ ButtonDom @@ TeamDom

DomNodes == DOMAIN Dom

\* Element.closest(selector) for a tag selector: the node itself or its
\* nearest ancestor with that tag, Outside if there is none
RECURSIVE ClosestTag(_, _)
ClosestTag(n, tag) ==
    IF n = Outside THEN Outside
    ELSE IF Dom[n].tag = tag THEN n
    ELSE ClosestTag(Dom[n].parent, tag)

\* Element.closest('[data-cursor]')
RECURSIVE ClosestDataCursor(_)
ClosestDataCursor(n) ==
    IF n = Outside THEN Outside
    ELSE IF Dom[n].dataCursor THEN n
    ELSE ClosestDataCursor(Dom[n].parent)

\* isInteractive of handleMouseOver and handleMouseOut
IsInteractiveTagOnly(target) ==
    \/ Dom[target].tag = "A"
    \/ Dom[target].tag = "BUTTON"
    \/ Dom[target].dataCursor

IsInteractive(target) ==
    \/ Dom[target].tag = "A"
    \/ Dom[target].tag = "BUTTON"
    \/ ClosestTag(target, "A") # Outside
    \/ ClosestTag(target, "BUTTON") # Outside
    \/ Dom[target].dataCursor
    \/ ClosestDataCursor(target) # Outside

\* gsap.quickSetter(cursor, prop, 'px'): the value is written as it is
QuickSetHalfway(old, v) == (old + v) \div 2

QuickSet(old, v) == v

\* pointer coordinates (clientX, clientY) in px
CursorPoints == { <<0, 0>>, <<120, 40>>, <<640, 360>> }

HoverScale == 50

RestScale == 100

\* the document events the browser produces when the pointer goes from node
\* `from` to node `to` and ends at point p: out and leave of the old node,
\* enter and over of the new one, then the move
PointerEvents(from, to, p) ==
    (IF from # to /\ from # Outside
     THEN << [type |-> "mouseout", target |-> from, at |-> p] >> ELSE << >>)
    \o (IF from # to /\ to = Outside
        THEN << [type |-> "mouseleave", target |-> Outside, at |-> p] >>
        ELSE << >>)
    \o (IF from # to /\ from = Outside
        THEN << [type |-> "mouseenter", target |-> Outside, at |-> p] >>
        ELSE << >>)
    \o (IF from # to /\ to # Outside
        THEN << [type |-> "mouseover", target |-> to, at |-> p] >> ELSE << >>)
    \o (IF to # Outside
        THEN << [type |-> "mousemove", target |-> to, at |-> p] >> ELSE << >>)

\* no mousemove handled yet
NoMove == [seen |-> FALSE, at |-> <<0, 0>>]

\* freshly rendered cursor elements: no transform, no class, no request
CurFresh ==
    /\ curDot = <<0, 0>>
    /\ curTarget = <<0, 0>>
    /\ curFollowerBusy = FALSE
    /\ curHovering = FALSE
    /\ curScaleReq = RestScale
    /\ curOpacityReq = 1
    /\ curLastMove = NoMove
    /\ curHoverSeen = FALSE

\* CustomCursor mounted with the pointer anywhere
CurInit ==
    /\ curMounted = TRUE
    /\ curUnder \in DomNodes \cup {Outside}
    /\ curPos = <<0, 0>>
    /\ curQueue = << >>
    /\ CurFresh

CurIdle ==
    /\ curMounted = TRUE
    /\ curUnder = Outside
    /\ curPos = <<0, 0>>
    /\ curQueue = << >>
    /\ CurFresh

\* the user moves the pointer
CurPointerMove(to, p) ==
    /\ curQueue = << >>
    /\ to # curUnder \/ (to # Outside /\ p # curPos)
    /\ curQueue' = PointerEvents(curUnder, to, p)
    /\ curUnder' = to
    /\ curPos' = IF to = Outside THEN curPos ELSE p
    /\ UNCHANGED <<curMounted, curDot, curTarget, curFollowerBusy,
                   curHovering, curScaleReq, curOpacityReq, curLastMove,
                   curHoverSeen>>

\* handleMouseMove
CurHandleMouseMove ==
    /\ curMounted
    /\ curQueue # << >>
    /\ Head(curQueue).type = "mousemove"
    /\ LET e == Head(curQueue)
       IN  /\ curDot' = << QuickSet(curDot[1], e.at[1]),
                           QuickSet(curDot[2], e.at[2]) >>
           /\ curTarget' = e.at
           /\ curLastMove' = [seen |-> TRUE, at |-> e.at]
    /\ curFollowerBusy' = TRUE
    /\ curQueue' = Tail(curQueue)
    /\ UNCHANGED <<curMounted, curUnder, curPos, curHovering, curScaleReq,
                   curOpacityReq, curHoverSeen>>

\* handleMouseOver
CurHandleMouseOver ==
    /\ curMounted
    /\ curQueue # << >>
    /\ Head(curQueue).type = "mouseover"
    /\ IF IsInteractive(Head(curQueue).target)
       THEN curHovering' = TRUE /\ curScaleReq' = HoverScale
       ELSE UNCHANGED <<curHovering, curScaleReq>>
    /\ curHoverSeen' = TRUE
    /\ curQueue' = Tail(curQueue)
    /\ UNCHANGED <<curMounted, curUnder, curPos, curDot, curTarget,
                   curFollowerBusy, curOpacityReq, curLastMove>>

\* handleMouseOut
CurHandleMouseOut ==
    /\ curMounted
    /\ curQueue # << >>
    /\ Head(curQueue).type = "mouseout"
    /\ IF IsInteractive(Head(curQueue).target)
       THEN curHovering' = FALSE /\ curScaleReq' = RestScale
       ELSE UNCHANGED <<curHovering, curScaleReq>>
    /\ curHoverSeen' = TRUE
    /\ curQueue' = Tail(curQueue)
    /\ UNCHANGED <<curMounted, curUnder, curPos, curDot, curTarget,
                   curFollowerBusy, curOpacityReq, curLastMove>>

\* handleMouseLeave and handleMouseEnter
CurHandleLeaveEnter ==
    /\ curMounted
    /\ curQueue # << >>
    /\ Head(curQueue).type \in {"mouseleave", "mouseenter"}
    /\ curOpacityReq' = IF Head(curQueue).type = "mouseleave" THEN 0 ELSE 1
    /\ curQueue' = Tail(curQueue)
    /\ UNCHANGED <<curMounted, curUnder, curPos, curDot, curTarget,
                   curFollowerBusy, curHovering, curScaleReq, curLastMove,
                   curHoverSeen>>

\* an event dispatched after the cleanup removed the listeners
CurDrop ==
    /\ ~curMounted
    /\ curQueue # << >>
    /\ curQueue' = Tail(curQueue)
    /\ UNCHANGED <<curMounted, curUnder, curPos, curDot, curTarget,
                   curFollowerBusy, curHovering, curScaleReq, curOpacityReq,
                   curLastMove, curHoverSeen>>

\* the follower tween reaches its end
CurFollowerDone ==
    /\ curFollowerBusy
    /\ curFollowerBusy' = FALSE
    /\ UNCHANGED <<curMounted, curUnder, curPos, curQueue, curDot, curTarget,
                   curHovering, curScaleReq, curOpacityReq, curLastMove,
                   curHoverSeen>>

\* cleanup of the effect
CurUnmount ==
    /\ curMounted
    /\ curMounted' = FALSE
    /\ UNCHANGED <<curUnder, curPos, curQueue, curDot, curTarget,
                   curFollowerBusy, curHovering, curScaleReq, curOpacityReq,
                   curLastMove, curHoverSeen>>

\* a new mount renders new elements and registers the listeners again
CurMount ==
    /\ ~curMounted
    /\ curMounted' = TRUE
    /\ curDot' = <<0, 0>>
    /\ curTarget' = <<0, 0>>
    /\ curFollowerBusy' = FALSE
    /\ curHovering' = FALSE
    /\ curScaleReq' = RestScale
    /\ curOpacityReq' = 1
    /\ curLastMove' = NoMove
    /\ curHoverSeen' = FALSE
    /\ UNCHANGED <<curUnder, curPos, curQueue>>

CurNext ==
    \/ \E to \in DomNodes \cup {Outside} : \E p \in CursorPoints :
           CurPointerMove(to, p)
    \/ CurHandleMouseMove
    \/ CurHandleMouseOver
    \/ CurHandleMouseOut
    \/ CurHandleLeaveEnter
    \/ CurDrop
    \/ CurFollowerDone
    \/ CurUnmount
    \/ CurMount

\* ------------------------------------------------------------------------
\* Replayable demos: the context stored in ctx.current
\* ------------------------------------------------------------------------
ReplayDemos == {"GsapBasicsShowcase", "FromToDemo", "StaggerDemo"}

\* contexts one run counts
MaxContexts == 5

\* ctx.current.revert(): the context at index i is reverted (i = 0: null)
Revert(ctxs, i) ==
    [ k \in DOMAIN ctxs |->
        IF k = i THEN [ctxs[k] EXCEPT !.reverted = TRUE] ELSE ctxs[k] ]

\* the revert of the useGSAP context at unmount: it reverts the contexts
\* created while its callback ran, which recorded themselves in it
RevertNested(ctxs) ==
    [ k \in DOMAIN ctxs |->
        IF ctxs[k].nested THEN [ctxs[k] EXCEPT !.reverted = TRUE]
        ELSE ctxs[k] ]

\* the boxes after ctx.current.revert(): back to their original state when
\* there was a context to revert
ElemsAfterRevert(elems, ref) == IF ref = 0 THEN elems ELSE "original"

\* the contexts that have not been reverted
Live(ctxs) == { k \in DOMAIN ctxs : ~ctxs[k].reverted }

RpInit ==
    /\ rpDemo \in ReplayDemos
    /\ rpMounted = FALSE
    /\ rpContexts = << >>
    /\ rpCtxRef = 0
    /\ rpElems = "original"
    /\ rpCleanStarts = TRUE

RpIdle ==
    /\ rpDemo = "FromToDemo"
    /\ rpMounted = FALSE
    /\ rpContexts = << >>
    /\ rpCtxRef = 0
    /\ rpElems = "original"
    /\ rpCleanStarts = TRUE

\* the demo mounts: new refs and boxes; the useGSAP callback calls the run
\* function, whose context is created inside the useGSAP context
RpMount ==
    /\ ~rpMounted
    /\ Len(rpContexts) < MaxContexts
    /\ rpMounted' = TRUE
    /\ rpContexts' = Append(rpContexts, [reverted |-> FALSE, nested |-> TRUE])
    /\ rpCtxRef' = Len(rpContexts) + 1
    /\ rpElems' = "animating"
    /\ UNCHANGED <<rpDemo, rpCleanStarts>>

\* a click on Replay: the run function reverts ctx.current and creates a
\* new context, outside of any other context
RpReplay ==
    /\ rpMounted
    /\ Len(rpContexts) < MaxContexts
    /\ rpContexts' = Append(Revert(rpContexts, rpCtxRef),
                            [reverted |-> FALSE, nested |-> FALSE])
    /\ rpCtxRef' = Len(rpContexts) + 1
    /\ rpCleanStarts' =
           (rpCleanStarts /\ ElemsAfterRevert(rpElems, rpCtxRef) = "original")
    /\ rpElems' = "animating"
    /\ UNCHANGED <<rpDemo, rpMounted>>

\* the entrance tweens of the current context reach their end
RpSettle ==
    /\ rpMounted
    /\ rpElems = "animating"
    /\ rpElems' = "settled"
    /\ UNCHANGED <<rpDemo, rpMounted, rpContexts, rpCtxRef, rpCleanStarts>>

\* the demo unmounts: useGSAP reverts its own context
RpUnmount ==
    /\ rpMounted
    /\ rpMounted' = FALSE
    /\ rpContexts' = RevertNested(rpContexts)
    /\ rpCtxRef' = 0
    /\ rpElems' = "original"
    /\ UNCHANGED <<rpDemo, rpCleanStarts>>

RpNext ==
    \/ RpMount
    \/ RpReplay
    \/ RpSettle
    \/ RpUnmount

\* ------------------------------------------------------------------------
\* LenisSmoothScroll: one Lenis instance driven by gsap.ticker
\* ------------------------------------------------------------------------
\* time * 1000
MsPerSecond == 1000

\* tickerCallback's conversion of the ticker time (seconds) to the argument
\* of lenis.raf (milliseconds), both in thousandths of their unit
ToMsUnconverted(time) == time

ToMs(time) == time * MsPerSecond

\* frame lengths, in thousandths of a second
FrameDeltas == {16, 17, 33}

\* ticker time one run covers, in thousandths of a second
MaxTime == 120

\* mounts one run covers
MaxMounts == 3

\* page loaded, the effect has created the first instance
LnInit ==
    /\ lnMounted = TRUE
    /\ lnCreated = 1
    /\ lnLive = {1}
    /\ lnCallbacks = {1}
    /\ lnTime = 0
    /\ lnRafs = 0
    /\ lnRafArg = 0
    /\ lnTicked = FALSE

LnIdle == LnInit

\* the effect: new Lenis, gsap.ticker.add(tickerCallback)
LnMount ==
    /\ ~lnMounted
    /\ lnCreated < MaxMounts
    /\ lnMounted' = TRUE
    /\ lnCreated' = lnCreated + 1
    /\ lnLive' = lnLive \cup {lnCreated + 1}
    /\ lnCallbacks' = lnCallbacks \cup {lnCreated + 1}
    /\ lnTicked' = FALSE
    /\ UNCHANGED <<lnTime, lnRafs, lnRafArg>>

\* the cleanup: gsap.ticker.remove(tickerCallback), lenis.destroy()
LnUnmount ==
    /\ lnMounted
    /\ lnMounted' = FALSE
    /\ lnCallbacks' = lnCallbacks \ {lnCreated}
    /\ lnLive' = lnLive \ {lnCreated}
    /\ UNCHANGED <<lnCreated, lnTime, lnRafs, lnRafArg, lnTicked>>

\* a tick of gsap.ticker: every registered callback runs once
LnTick(dt) ==
    /\ lnTime + dt <= MaxTime
    /\ lnTime' = lnTime + dt
    /\ lnRafs' = Cardinality(lnCallbacks)
    /\ lnRafArg' = IF lnCallbacks # {} THEN ToMs(lnTime') ELSE lnRafArg
    /\ lnTicked' = TRUE
    /\ UNCHANGED <<lnMounted, lnCreated, lnLive, lnCallbacks>>

LnNext ==
    \/ LnMount
    \/ LnUnmount
    \/ \E dt \in FrameDeltas : LnTick(dt)

\* ------------------------------------------------------------------------
\* HorizontalScrollSection: translation of the card strip
\* ------------------------------------------------------------------------
\* gsap.to(scrollContainer, {x: -totalScrollWidth, ease: 'none'}) rendered
\* at progress anim / ScrDen(start, end)
ContainerX(g, anim, start, end) ==
    (-TotalScrollWidth(g) * anim) \div ScrDen(start, end)

\* ------------------------------------------------------------------------
\* CountersSection: one animated number
\* ------------------------------------------------------------------------
\* counters[i].value
CounterValues == <<150, 80, 12, 8>>

\* start: 'top 70%'
CounterStart == Threshold(EntGeom, "top", 70)

\* ease 'expo.out' at k / 8 of the duration, in thousandths:
\* 1 - 2^(-10 k / 8), and exactly 1 at the end
ExpoOut == <<580, 823, 926, 969, 987, 994, 998, 1000>>

\* renders of one tween: the playhead at k / CounterSteps of the duration
CounterSteps == Len(ExpoOut)

\* Math.round of n / d for n >= 0
RoundHalfUp(n, d) == (2 * n + d) \div (2 * d)

\* proxy.val at step k, in thousandths: the eased value snapped by
\* snap: { val: 1 }
ProxyVal(value, k) ==
    IF k = 0 THEN 0 ELSE RoundHalfUp(value * ExpoOut[k], U) * U

\* onUpdate: el.textContent = String(Math.round(proxy.val))
TextOfUnrounded(value, k) == IF k = 0 THEN 0 ELSE value * ExpoOut[k]

TextOf(value, k) == RoundHalfUp(ProxyVal(value, k), U) * U

\* the page at the top, the element rendered with the text 0, the tween
\* built and held by its ScrollTrigger
CtInit ==
    /\ ctIndex \in DOMAIN CounterValues
    /\ ctPos = 0
    /\ ctPhase = "waiting"
    /\ ctStep = 0
    /\ ctText = 0

CtIdle ==
    /\ ctIndex = 1
    /\ ctPos = 0
    /\ ctPhase = "waiting"
    /\ ctStep = 0
    /\ ctText = 0

\* a scroll update: entering the trigger plays the tween, after its delay
\* of index * 0.15 s; no other toggle action is configured
CtScroll(y) ==
    /\ y # ctPos
    /\ ctPos' = y
    /\ ctPhase' = IF ctPhase = "waiting" /\ y >= CounterStart
                  THEN (IF ctIndex = 1 THEN "running" ELSE "delayed")
                  ELSE ctPhase
    /\ UNCHANGED <<ctIndex, ctStep, ctText>>

\* the delay has elapsed
CtDelayOver ==
    /\ ctPhase = "delayed"
    /\ ctPhase' = "running"
    /\ UNCHANGED <<ctIndex, ctPos, ctStep, ctText>>

\* a render of the running tween: the proxy advances, onUpdate writes it
CtRender ==
    /\ ctPhase = "running"
    /\ ctStep' = ctStep + 1
    /\ ctText' = TextOf(CounterValues[ctIndex], ctStep')
    /\ ctPhase' = IF ctStep' = CounterSteps THEN "done" ELSE "running"
    /\ UNCHANGED <<ctIndex, ctPos>>

CtNext ==
    \/ \E y \in EntPositions : CtScroll(y)
    \/ CtDelayOver
    \/ CtRender

\* ------------------------------------------------------------------------
\* createScrollTriggerConfig: the ScrollTrigger configuration factory
\* ------------------------------------------------------------------------
\* values are written as their source text; "undefined" is an absent key
Undefined == "undefined"

NodeEnvs == {"development", "production", "test"}

OptionSets ==
    [ start : {Undefined, "top top"},
      end : {Undefined, "bottom top"},
      scrub : {Undefined, "true", "1"},
      pin : {Undefined, "true"},
      markers : {Undefined, "true", "false"},
      refreshPriority : {Undefined, "5"},
      toggleActions : {Undefined, "play none none reverse"},
      once : {Undefined, "false"} ]

\* a ?? b
Nullish(a, b) == IF a = Undefined THEN b ELSE a

createScrollTriggerConfig(trigger, options, env) ==
    [ trigger |-> trigger,
      start |-> Nullish(options.start, "top 80%"),
      end |-> Nullish(options.end, "bottom 20%"),
      scrub |-> Nullish(options.scrub, "false"),
      pin |-> Nullish(options.pin, "false"),
      markers |-> Nullish(options.markers,
                          IF env = "development" THEN "false" ELSE "false"),
      refreshPriority |-> Nullish(options.refreshPriority, "1"),
      toggleActions |-> Nullish(options.toggleActions, "play none none none"),
      once |-> Nullish(options.once, "true") ]

NoConfig ==
    [ trigger |-> Undefined, start |-> Undefined, end |-> Undefined,
      scrub |-> Undefined, pin |-> Undefined, markers |-> Undefined,
      refreshPriority |-> Undefined, toggleActions |-> Undefined,
      once |-> Undefined ]

CfgInit ==
    /\ cfgEnv \in NodeEnvs
    /\ cfgOptions \in OptionSets
    /\ cfgCalled = FALSE
    /\ cfgResult = NoConfig

CfgIdle ==
    /\ cfgEnv = "production"
    /\ cfgOptions = [start |-> Undefined, end |-> Undefined,
                     scrub |-> Undefined, pin |-> Undefined,
                     markers |-> Undefined, refreshPriority |-> Undefined,
                     toggleActions |-> Undefined, once |-> Undefined]
    /\ cfgCalled = FALSE
    /\ cfgResult = NoConfig

\* a caller builds a configuration for its section
CfgCall ==
    /\ ~cfgCalled
    /\ cfgCalled' = TRUE
    /\ cfgResult' = createScrollTriggerConfig(".section", cfgOptions, cfgEnv)
    /\ UNCHANGED <<cfgEnv, cfgOptions>>

CfgNext == CfgCall

\* ------------------------------------------------------------------------
\* Specifications: one per component, the others held at rest
\* ------------------------------------------------------------------------
InitMagnetic ==
    /\ MagInit
    /\ NavIdle /\ ScrIdle /\ PtIdle /\ EntIdle
    /\ RegIdle /\ TwIdle /\ LcIdle /\ CurIdle
    /\ RpIdle /\ LnIdle /\ CtIdle /\ CfgIdle

NextMagnetic ==
    /\ MagNext
    /\ UNCHANGED <<navVars, scrVars, ptVars, entVars>>
    /\ UNCHANGED <<regVars, twVars, lcVars, curVars>>
    /\ UNCHANGED <<rpVars, lnVars, ctVars, cfgVars>>

SpecMagnetic == InitMagnetic /\ [][NextMagnetic]_vars

InitNavbar ==
    /\ NavInit
    /\ MagIdle /\ ScrIdle /\ PtIdle /\ EntIdle
    /\ RegIdle /\ TwIdle /\ LcIdle /\ CurIdle
    /\ RpIdle /\ LnIdle /\ CtIdle /\ CfgIdle

NextNavbar ==
    /\ NavNext
    /\ UNCHANGED <<magVars, scrVars, ptVars, entVars>>
    /\ UNCHANGED <<regVars, twVars, lcVars, curVars>>
    /\ UNCHANGED <<rpVars, lnVars, ctVars, cfgVars>>

SpecNavbar == InitNavbar /\ [][NextNavbar]_vars

InitScrub ==
    /\ ScrInit
    /\ MagIdle /\ NavIdle /\ PtIdle /\ EntIdle
    /\ RegIdle /\ TwIdle /\ LcIdle /\ CurIdle
    /\ RpIdle /\ LnIdle /\ CtIdle /\ CfgIdle

NextScrub ==
    /\ ScrNext
    /\ UNCHANGED <<magVars, navVars, ptVars, entVars>>
    /\ UNCHANGED <<regVars, twVars, lcVars, curVars>>
    /\ UNCHANGED <<rpVars, lnVars, ctVars, cfgVars>>

SpecScrub == InitScrub /\ [][NextScrub]_vars

InitPage ==
    /\ PtInit
    /\ MagIdle /\ NavIdle /\ ScrIdle /\ EntIdle
    /\ RegIdle /\ TwIdle /\ LcIdle /\ CurIdle
    /\ RpIdle /\ LnIdle /\ CtIdle /\ CfgIdle

NextPage ==
    /\ PtNext
    /\ UNCHANGED <<magVars, navVars, scrVars, entVars>>
    /\ UNCHANGED <<regVars, twVars, lcVars, curVars>>
    /\ UNCHANGED <<rpVars, lnVars, ctVars, cfgVars>>

SpecPage == InitPage /\ [][NextPage]_vars

InitEntrance ==
    /\ EntInit
    /\ MagIdle /\ NavIdle /\ ScrIdle /\ PtIdle
    /\ RegIdle /\ TwIdle /\ LcIdle /\ CurIdle
    /\ RpIdle /\ LnIdle /\ CtIdle /\ CfgIdle

NextEntrance ==
    /\ EntNext
    /\ UNCHANGED <<magVars, navVars, scrVars, ptVars>>
    /\ UNCHANGED <<regVars, twVars, lcVars, curVars>>
    /\ UNCHANGED <<rpVars, lnVars, ctVars, cfgVars>>

SpecEntrance == InitEntrance /\ [][NextEntrance]_vars

InitRegister ==
    /\ RegInit
    /\ MagIdle /\ NavIdle /\ ScrIdle /\ PtIdle
    /\ EntIdle /\ TwIdle /\ LcIdle /\ CurIdle
    /\ RpIdle /\ LnIdle /\ CtIdle /\ CfgIdle

NextRegister ==
    /\ RegNext
    /\ UNCHANGED <<magVars, navVars, scrVars, ptVars>>
    /\ UNCHANGED <<entVars, twVars, lcVars, curVars>>
    /\ UNCHANGED <<rpVars, lnVars, ctVars, cfgVars>>

SpecRegister == InitRegister /\ [][NextRegister]_vars

InitTweens ==
    /\ TwInit
    /\ MagIdle /\ NavIdle /\ ScrIdle /\ PtIdle
    /\ EntIdle /\ RegIdle /\ LcIdle /\ CurIdle
    /\ RpIdle /\ LnIdle /\ CtIdle /\ CfgIdle

NextTweens ==
    /\ TwNext
    /\ UNCHANGED <<magVars, navVars, scrVars, ptVars>>
    /\ UNCHANGED <<entVars, regVars, lcVars, curVars>>
    /\ UNCHANGED <<rpVars, lnVars, ctVars, cfgVars>>

SpecTweens == InitTweens /\ [][NextTweens]_vars

InitLifecycle ==
    /\ LcInit
    /\ MagIdle /\ NavIdle /\ ScrIdle /\ PtIdle
    /\ EntIdle /\ RegIdle /\ TwIdle /\ CurIdle
    /\ RpIdle /\ LnIdle /\ CtIdle /\ CfgIdle

NextLifecycle ==
    /\ LcNext
    /\ UNCHANGED <<magVars, navVars, scrVars, ptVars>>
    /\ UNCHANGED <<entVars, regVars, twVars, curVars>>
    /\ UNCHANGED <<rpVars, lnVars, ctVars, cfgVars>>

SpecLifecycle == InitLifecycle /\ [][NextLifecycle]_vars

InitCursor ==
    /\ CurInit
    /\ MagIdle /\ NavIdle /\ ScrIdle /\ PtIdle
    /\ EntIdle /\ RegIdle /\ TwIdle /\ LcIdle
    /\ RpIdle /\ LnIdle /\ CtIdle /\ CfgIdle

NextCursor ==
    /\ CurNext
    /\ UNCHANGED <<magVars, navVars, scrVars, ptVars>>
    /\ UNCHANGED <<entVars, regVars, twVars, lcVars>>
    /\ UNCHANGED <<rpVars, lnVars, ctVars, cfgVars>>

SpecCursor == InitCursor /\ [][NextCursor]_vars

InitReplay ==
    /\ RpInit
    /\ MagIdle /\ NavIdle /\ ScrIdle /\ PtIdle
    /\ EntIdle /\ RegIdle /\ TwIdle /\ LcIdle
    /\ CurIdle /\ LnIdle /\ CtIdle /\ CfgIdle

NextReplay ==
    /\ RpNext
    /\ UNCHANGED <<magVars, navVars, scrVars, ptVars>>
    /\ UNCHANGED <<entVars, regVars, twVars, lcVars>>
    /\ UNCHANGED <<curVars, lnVars, ctVars, cfgVars>>

SpecReplay == InitReplay /\ [][NextReplay]_vars

InitLenis ==
    /\ LnInit
    /\ MagIdle /\ NavIdle /\ ScrIdle /\ PtIdle
    /\ EntIdle /\ RegIdle /\ TwIdle /\ LcIdle
    /\ CurIdle /\ RpIdle /\ CtIdle /\ CfgIdle

NextLenis ==
    /\ LnNext
    /\ UNCHANGED <<magVars, navVars, scrVars, ptVars>>
    /\ UNCHANGED <<entVars, regVars, twVars, lcVars>>
    /\ UNCHANGED <<curVars, rpVars, ctVars, cfgVars>>

SpecLenis == InitLenis /\ [][NextLenis]_vars

InitCounters ==
    /\ CtInit
    /\ MagIdle /\ NavIdle /\ ScrIdle /\ PtIdle
    /\ EntIdle /\ RegIdle /\ TwIdle /\ LcIdle
    /\ CurIdle /\ RpIdle /\ LnIdle /\ CfgIdle

NextCounters ==
    /\ CtNext
    /\ UNCHANGED <<magVars, navVars, scrVars, ptVars>>
    /\ UNCHANGED <<entVars, regVars, twVars, lcVars>>
    /\ UNCHANGED <<curVars, rpVars, lnVars, cfgVars>>

SpecCounters == InitCounters /\ [][NextCounters]_vars

InitConfig ==
    /\ CfgInit
    /\ MagIdle /\ NavIdle /\ ScrIdle /\ PtIdle
    /\ EntIdle /\ RegIdle /\ TwIdle /\ LcIdle
    /\ CurIdle /\ RpIdle /\ LnIdle /\ CtIdle

NextConfig ==
    /\ CfgNext
    /\ UNCHANGED <<magVars, navVars, scrVars, ptVars>>
    /\ UNCHANGED <<entVars, regVars, twVars, lcVars>>
    /\ UNCHANGED <<curVars, rpVars, lnVars, ctVars>>

SpecConfig == InitConfig /\ [][NextConfig]_vars

\* ------------------------------------------------------------------------
\* C1: after every handled pointer-move on a useMagnetic element the
\* requested target is (client - centre) * strength on both axes, the
\* centre being the midpoint of the bounding rectangle measured by that
\* event; strength 0.3 and displacement (40, -20) px request (12, -6) px.
\* ------------------------------------------------------------------------
C1_MagneticOffset ==
    (magKind = "useMagnetic" /\ magLast.type = "move" /\ magLast.handled) =>
        /\ magReq = "move"
        /\ 200 * magTarget.x =
               (2 * magLast.client.x - 2 * magLast.rect.left
                  - magLast.rect.width) * magStrength
        /\ 200 * magTarget.y =
               (2 * magLast.client.y - 2 * magLast.rect.top
                  - magLast.rect.height) * magStrength
        /\ (magStrength = 30
              /\ 2 * magLast.client.x - 2 * magLast.rect.left
                   - magLast.rect.width = 2 * Px(40)
              /\ 2 * magLast.client.y - 2 * magLast.rect.top
                   - magLast.rect.height = 2 * Px(-20))
           => magTarget = [x |-> Px(12), y |-> Px(-6)]

\* the spec's example, measured on an element already displaced by an
\* earlier request
C1_Witness ==
    /\ magKind = "useMagnetic" /\ magStrength = 30
    /\ magLast.type = "move" /\ magLast.handled
    /\ magTarget = [x |-> Px(12), y |-> Px(-6)]
    /\ magCur = magTarget

\* ------------------------------------------------------------------------
\* C2: a handled pointer-leave requests the target (0,0) for the element
\* (and for MagneticButton's inner text); with no later move the last
\* requested target stays (0,0).
\* ------------------------------------------------------------------------
C2_LeaveResets ==
    (magLast.type = "leave" /\ magLast.handled) =>
        /\ magReq = "leave"
        /\ magTarget = Zero2
        /\ magKind = "MagneticButton" => magTextTarget = Zero2

\* a leave handled while the element was displaced by earlier moves
C2_Witness ==
    /\ magLast.type = "leave" /\ magLast.handled
    /\ magLast.rect # RestRect
    /\ magTarget = Zero2
    /\ magKind = "MagneticButton"

C4_ClampedAtThresholds ==
    (scrReg /\ scrStart < scrEnd) =>
        /\ scrPos <= scrStart => scrTarget = 0
        /\ scrPos >= scrEnd => scrTarget = scrEnd - scrStart
        /\ 0 <= scrTarget /\ scrTarget <= scrEnd - scrStart

C4_MonotoneStep ==
    (scrReg /\ scrReg' /\ scrStart < scrEnd) =>
        /\ scrPos' >= scrPos => scrTarget' >= scrTarget
        /\ scrPos' <= scrPos => scrTarget' <= scrTarget

C5_Original ==
    (scrReg /\ scrStart < scrEnd) =>
        scrAnim = (IF scrPos <= scrStart THEN 0
                   ELSE IF scrPos >= scrEnd THEN scrEnd - scrStart
                   ELSE scrPos - scrStart)

\* C5 amended: the target progress of every mapping, and the rendered
\* progress of the scrub: true mappings, is the clamped linear function of
\* the current scroll position alone; a scrub: 1 mapping renders that value
\* once its smoothing tween has ended, and lags behind it until then.
C5_StatelessTarget ==
    (scrReg /\ scrStart < scrEnd) =>
        LET f == IF scrPos <= scrStart THEN 0
                 ELSE IF scrPos >= scrEnd THEN scrEnd - scrStart
                 ELSE scrPos - scrStart
        IN  /\ scrTarget = f
            /\ ScrubConfig[scrMap].scrub = 0 => scrAnim = f
            /\ scrLeft = 0 => scrAnim = f

\* a scrub: true mapping rendered strictly between its thresholds
C5_Witness ==
    /\ scrReg /\ ScrubConfig[scrMap].scrub = 0
    /\ scrStart < scrPos /\ scrPos < scrEnd
    /\ scrAnim = scrPos - scrStart
    /\ scrMap = "featureHighlight"

\* ------------------------------------------------------------------------
\* C9: on a route change the displayed page content is replaced only while
\* the overlay fully covers the page (scaleY = 1), and until the swap the
\* previous route's content stays displayed.
\* ------------------------------------------------------------------------
C9_SwapStep ==
    (~ptFirstRender /\ ptDisplay' # ptDisplay) => ptScaleY' = FullCover

C9_SwapOnlyWhileCovered == [][C9_SwapStep]_vars

\* ------------------------------------------------------------------------
\* C3 as stated: every entrance animation starts at most once per page
\* load, whatever the scrolling, route changes and Replay clicks.
\* ------------------------------------------------------------------------
C3_Original == entFiredLoad <= 1

\* C3 amended: a scroll-triggered entrance (once: true) starts at most once
\* per mount of its section; an entrance built by a mount effect starts
\* exactly once per mount, and the basics demo's entrance once per mount
\* plus once per Replay click.
C3_OncePerMount ==
    /\ ScrollTriggered(entKind) => entFiredMount <= 1
    /\ ~entMounted => entFiredMount = 0
    /\ (entMounted /\ entKind = "heroEntrance") => entFiredMount = 1
    /\ (entMounted /\ Replayable(entKind)) =>
           entFiredMount = 1 + entReplays
    /\ entFiredLoad >= entFiredMount

\* a section mounted for the second time in one page load whose reveal has
\* played again and whose trigger is still alive after scrolling back up
C3_Witness ==
    /\ entKind = "sectionReveal" /\ entMounted
    /\ entFiredLoad = 2 /\ entFiredMount = 1
    /\ entAnim = "done" /\ entArmed /\ entPos < EntStart

\* ------------------------------------------------------------------------
\* C6: when a DOM node an effect or handler expects is absent, the
\* animation is skipped silently: no request is issued with an absent
\* target and nothing is logged.
\* ------------------------------------------------------------------------
C6_SilentSkip ==
    regRan => (regIssued \subseteq regDom /\ ~regWarned)

\* ------------------------------------------------------------------------
\* C7 as stated: at no time do two concurrently running animations write
\* the same property of the same DOM element.
\* ------------------------------------------------------------------------
C7_Original ==
    \A a \in Running : \A b \in Running : ~Conflict(a, b)

\* C7 amended: animations of different components never write the same
\* property of the same element; two animations of one component can
\* (Navbar: entrance and scroll tween on the nav's y; TestimonialsSection:
\* entrance and idle float on a card's y; TimelineDemo: step 4 against the
\* rotation and colour tweens of step 3), and there the later write wins.
C7_DisjointAcrossComponents ==
    \A a \in Running : \A b \in Running :
        Conflict(a, b) => a.comp = b.comp

\* step 4 of TimelineDemo running together with both tweens of step 3 while
\* every event tween of the other components is running too
C7_Witness ==
    /\ \E a \in Running : \E b \in Running :
           /\ Conflict(a, b)
           /\ a.id = "step3color" /\ b.id = "step4"
    /\ {"navScroll", "linkMove", "buttonMove", "cardEntrance"}
           \subseteq twActive

\* ------------------------------------------------------------------------
\* C8 as stated: after a component unmounts, none of the listeners,
\* timelines or tweens it registered on mount or from its click handlers
\* remains active, and none of its callbacks runs afterwards.
\* ------------------------------------------------------------------------
C8_NothingSurvivesUnmount ==
    /\ ~lcDemoMounted => lcTlDir = "stopped"
    /\ ~lcCursorMounted => (lcListeners = {} /\ ~lcFollowerTween)
    /\ lcLate = {}

\* ------------------------------------------------------------------------
\* C11: while CustomCursor is mounted, after every mousemove event it has
\* handled the inner dot sits at that event's pointer coordinates and the
\* last target requested for the follower ring is the same coordinates.
\* ------------------------------------------------------------------------
C11_CursorMirrorsPointer ==
    (curMounted /\ curLastMove.seen) =>
        /\ curDot = curLastMove.at
        /\ curTarget = curLastMove.at

\* the dot has been moved from one handled position to another
C11_Witness ==
    /\ curMounted
    /\ curQueue = << >>
    /\ curLastMove = [seen |-> TRUE, at |-> <<640, 360>>]
    /\ curDot = <<640, 360>>
    /\ curTarget = <<640, 360>>
    /\ curFollowerBusy

\* the node and every node above it
RECURSIVE SelfAndAncestors(_)
SelfAndAncestors(n) ==
    IF n = Outside THEN {} ELSE {n} \cup SelfAndAncestors(Dom[n].parent)

\* the node is, or is nested inside, a link, a button or a [data-cursor]
OverInteractive(n) ==
    \E a \in SelfAndAncestors(n) :
        Dom[a].tag \in {"A", "BUTTON"} \/ Dom[a].dataCursor

C13_OnceStep ==
    (ScrollTriggered(entKind) /\ entMounted') =>
        /\ (entFiredMount = 0 /\ entPos' >= EntStart) =>
               (entFiredMount' = 1 /\ entAnim' = "playing")
        /\ (entMounted /\ entFiredMount = 1) =>
               /\ entFiredMount' = 1
               /\ entAnim' # "initial"
               /\ entAnim = "done" => entAnim' = "done"
        /\ entPos' < EntStart => entFiredMount' = entFiredMount

C13_PlaysOnceOnFirstCrossing == [][C13_OnceStep]_vars

\* a milestone reveal that has played and ended, scrolled back below the
\* start threshold with its trigger still alive
C13_Witness ==
    /\ entKind = "itemReveal" /\ entMounted
    /\ entFiredMount = 1 /\ entFiredLoad = 1
    /\ entAnim = "done" /\ entArmed /\ entPos >= EntStart

\* ------------------------------------------------------------------------
\* C14: in each replayable demo every call of the run function reverts the
\* stored context before creating the new one, so after any number of
\* mounts and Replay clicks at most one un-reverted context exists per demo
\* and each replay starts from the elements' original state.
\* ------------------------------------------------------------------------
C14_OneLiveContext ==
    /\ Cardinality(Live(rpContexts)) <= 1
    /\ rpCleanStarts

\* ------------------------------------------------------------------------
\* C15: while LenisSmoothScroll is mounted each tick of the ticker makes
\* exactly one lenis.raf call, with the tick time in seconds converted to
\* milliseconds; across mounts, unmounts and remounts at most one Lenis
\* instance and one ticker callback are live.
\* ------------------------------------------------------------------------
C15_OneFrameLoop ==
    /\ Cardinality(lnLive) <= 1
    /\ Cardinality(lnCallbacks) <= 1
    /\ (lnMounted /\ lnTicked) =>
           /\ lnRafs = 1
           /\ lnRafArg = lnTime * 1000

\* the third instance, after two unmounts, driven by a tick at 0.033 s
C15_Witness ==
    /\ lnMounted /\ lnTicked
    /\ lnCreated = 3
    /\ lnLive = {3}
    /\ lnRafs = 1
    /\ lnTime = 33
    /\ lnRafArg = 33000

\* ------------------------------------------------------------------------
\* C16: in HorizontalScrollSection, for every container scroll width and
\* viewport width, the pinned scroll distance is the scroll width minus the
\* viewport width, the strip's translation is 0 at pin start and minus that
\* distance at pin end, and the strip's right edge is then inside the
\* viewport.
\* ------------------------------------------------------------------------
C16_PinnedDistance ==
    (scrMap = "horizontalScroll" /\ scrReg) =>
        LET x == ContainerX(scrGeom, scrAnim, scrStart, scrEnd)
            distance == scrGeom.contW - scrGeom.viewW
        IN  /\ scrEnd - scrStart = distance
            /\ scrPos <= scrStart => x = 0
            /\ scrPos >= scrEnd =>
                   (x = -distance /\ x + scrGeom.contW <= scrGeom.viewW)

\* ------------------------------------------------------------------------
\* C17: each counter shows only whole numbers, starts at 0, never
\* decreases, never exceeds its target and shows exactly its target once
\* its animation has completed.
\* ------------------------------------------------------------------------
C17_WholeAndBounded ==
    /\ ctText % U = 0
    /\ ctText >= 0
    /\ ctText <= CounterValues[ctIndex] * U
    /\ ctPhase \in {"waiting", "delayed"} => ctText = 0
    /\ ctPhase = "done" => ctText = CounterValues[ctIndex] * U

C17_NeverDecreases == ctText' >= ctText

C17_CounterCountsUp == []C17_WholeAndBounded /\ [][C17_NeverDecreases]_vars

\* the counter to 150 three renders in: 150 * 0.926 = 138.9 shown as 139
C17_Witness ==
    /\ ctIndex = 1
    /\ ctPhase = "running"
    /\ ctStep = 3
    /\ ctText = 139 * U

\* the value the onStart callbacks have passed to setActiveStep when the
\* playhead of a forward run is at t: the last step whose start lies before t
LastStarted(t) ==
    LET started == { k \in 1..Len(TimelineSteps) :
                       /\ StepCallback[TimelineSteps[k].name] # NoStep
                       /\ StepStart(k) < t }
    IN  IF started = {} THEN NoStep
        ELSE StepCallback[TimelineSteps[
                 CHOOSE k \in started : \A j \in started :
                     StepStart(j) <= StepStart(k)].name]

\* ------------------------------------------------------------------------
\* C18: in TimelineDemo's timeline the steps start in the order 1 to 5:
\* step 2 starts when step 1 ends, the rotation of step 3 and its colour
\* change start together, step 4 starts 0.2 s before the preceding tween
\* ends and step 5 starts 0.1 s after the preceding tween ends; while the
\* timeline plays forward the active step is the last one started.
\* ------------------------------------------------------------------------
C18_StepOrder ==
    /\ StepStart(1) = 0
    /\ StepStart(2) = StepEnd(1)
    /\ StepStart(3) > StepStart(2)
    /\ StepStart(4) = StepStart(3)
    /\ StepStart(5) = StepEnd(4) - 2
    /\ StepStart(5) > StepStart(3)
    /\ StepStart(6) = StepEnd(5) + 1
    /\ (lcDemoMounted /\ lcTlDir = "fwd") =>
           lcActiveStep = LastStarted(lcTlTime)

\* 2.1 s into a forward run: step 4 has started, both tweens of step 3 are
\* still running
C18_Witness ==
    /\ lcDemoMounted
    /\ lcTlDir = "fwd"
    /\ lcTlTime = 21
    /\ lcActiveStep = 3
    /\ StepsActiveAt(lcTlTime) = {3, 4, 5}

\* ------------------------------------------------------------------------
\* C19: on every handled pointer-move over a MagneticButton the button is
\* requested to move by 30% of the pointer's offset from the button centre
\* and the inner text by 40% of the same offset.
\* ------------------------------------------------------------------------
C19_ButtonAndTextShares ==
    (magKind = "MagneticButton" /\ magLast.type = "move" /\ magLast.handled)
    =>
        LET dx2 == 2 * magLast.client.x - 2 * magLast.rect.left
                     - magLast.rect.width
            dy2 == 2 * magLast.client.y - 2 * magLast.rect.top
                     - magLast.rect.height
        IN  /\ 200 * magTarget.x = dx2 * 30
            /\ 200 * magTarget.y = dy2 * 30
            /\ 200 * magTextTarget.x = dx2 * 40
            /\ 200 * magTextTarget.y = dy2 * 40

\* ------------------------------------------------------------------------
\* C20: for every options argument, the configuration that
\* createScrollTriggerConfig returns in a production build has
\* markers = false.
\* ------------------------------------------------------------------------
C20_NoMarkersInProduction ==
    (cfgCalled /\ cfgEnv = "production") => cfgResult.markers = "false"

\* ------------------------------------------------------------------------
\* C21: the offset useMagnetic requests depends only on the latest pointer
\* event and the element's rest position: a handled move at the pointer
\* position of the handled move before it requests the same target, however
\* far the element has been displaced in between.
\* ------------------------------------------------------------------------
C21_SamePointerStep ==
    (/\ magKind = "useMagnetic"
     /\ magLast.type = "move" /\ magLast.handled
     /\ magLast'.type = "move" /\ magLast'.handled
     /\ magLast'.client = magLast.client)
    => magTarget' = magTarget

C21_SamePointerSameTarget == [][C21_SamePointerStep]_vars

====
